---------------------------- MODULE Spec2Model ----------------------------
(***************************************************************************)
(* A model of src/main.py: the polygon collision test                      *)
(* (check_polygon_collision and its three helpers), the DataStorage        *)
(* key-value store and FileProcessor.copy_directory.                       *)
(*                                                                         *)
(* Points are pairs <<x, y>> of integers, polygons are sequences of        *)
(* points (1-based here, 0-based in the source), segments are pairs of     *)
(* points.                                                                 *)
(***************************************************************************)
EXTENDS Integers, Sequences, FiniteSets, TLC

VARIABLES
    pc,          \* which call the current behaviour has made so far
    seg1, seg2,  \* arguments of line_segments_intersect
    intersects,  \* its return value
    point,       \* arguments of point_in_polygon
    polygon,
    inside,      \* its return value
    polygon1,    \* arguments of check_polygon_collision
    polygon2,
    collision,   \* its outcome for (polygon1, polygon2)
    collisionRev,\* its outcome for (polygon2, polygon1)
    storage,     \* the DataStorage object: its _data and the log records
                 \* its methods have emitted
    ret,         \* the return value of the last DataStorage call
    raised,      \* the exception the last call raised, or None
    calls,       \* the DataStorage calls made so far, oldest first
    before,      \* _data as it was before the last DataStorage call
    fs,          \* the file tree: existing path -> "dir" or a file's content
    fs0,         \* the file tree as it was when copy_directory was called
    call,        \* the arguments of the copy_directory call
    copyRaised   \* the exception copy_directory raised, or None

vars == <<pc, seg1, seg2, intersects, point, polygon, inside,
          polygon1, polygon2, collision, collisionRev,
          storage, ret, raised, calls, before,
          fs, fs0, call, copyRaised>>

segVars   == <<seg1, seg2, intersects>>
pipVars   == <<point, polygon, inside>>
polyVars  == <<polygon1, polygon2, collision, collisionRev>>
storeVars == <<storage, ret, raised, calls, before>>
fsVars    == <<fs, fs0, call, copyRaised>>

None == "none"

-----------------------------------------------------------------------------
(* Bounds *)

SegMax == 2
    \* segment end points have coordinates in 0..SegMax
PipMax == 3
    \* rectangles of the point_in_polygon runs lie in 0..PipMax
RectMax == 3
    \* rectangles of the collision runs lie in 0..RectMax
TriCells == 8
    \* free polygons take their vertices among the first TriCells points,
    \* row by row, of a grid 3 or 4 points wide
MaxCalls == 4
    \* DataStorage calls in one behaviour
MaxEntries == 4
    \* files and directories that exist before copy_directory is called
MaxArgLen == 2
    \* components of the source and target paths

-----------------------------------------------------------------------------
(* Geometry: src/main.py lines 66-128 *)

X(p) == p[1]
Y(p) == p[2]

\* ccw(A, B, C): line 107.
ccw(A, B, C) == (Y(C) - Y(A)) * (X(B) - X(A)) > (Y(B) - Y(A)) * (X(C) - X(A))

\* line_segments_intersect without its second orientation test.
line_segments_intersect_first_test_only(s1, s2) ==
    ccw(s1[1], s2[1], s2[2]) # ccw(s1[2], s2[1], s2[2])

\* line_segments_intersect with "or" for "and".
line_segments_intersect_either_test(s1, s2) ==
    \/ ccw(s1[1], s2[1], s2[2]) # ccw(s1[2], s2[1], s2[2])
    \/ ccw(s1[1], s1[2], s2[1]) # ccw(s1[1], s1[2], s2[2])

\* line_segments_intersect(seg1, seg2): lines 109-111.
line_segments_intersect(s1, s2) ==
    LET A == s1[1]
        B == s1[2]
        C == s2[1]
        D == s2[2]
    IN  ccw(A, C, D) # ccw(B, C, D) /\ ccw(A, B, C) # ccw(A, B, D)

\* get_edges(polygon): lines 98-99; index i of the source is i - 1 here.
get_edges(poly) ==
    [i \in 1..Len(poly) |-> <<poly[i], poly[(i % Len(poly)) + 1]>>]

\* x <= n / d + c: the comparison of point_in_polygon made non-strict.
LessOrEqualQuotientPlus(x, n, d, c) ==
    IF d > 0 THEN (x - c) * d <= n ELSE (x - c) * d >= n

\* x < n / d + c for integers x, n, d, c with d # 0.  The source evaluates
\* n / d + c in double precision; for the small integers of this model the
\* quotient is either an integer (exact) or at least 1/|d| away from every
\* integer, so the comparison has the value of the exact one.
LessThanQuotientPlus(x, n, d, c) ==
    IF d > 0 THEN (x - c) * d < n ELSE (x - c) * d > n

\* The condition of the if statement in point_in_polygon: lines 87-89.
RayCrosses(p, vi, vj) ==
    /\ (Y(vi) > Y(p)) # (Y(vj) > Y(p))
    /\ LessThanQuotientPlus(X(p), (X(vj) - X(vi)) * (Y(p) - Y(vi)),
                            Y(vj) - Y(vi), X(vi))

\* The for loop of point_in_polygon: lines 86-91.
RECURSIVE pip_loop(_, _, _, _, _)
pip_loop(p, poly, i, j, ins) ==
    IF i > Len(poly) THEN ins
    ELSE pip_loop(p, poly, i + 1, i,
                  IF RayCrosses(p, poly[i], poly[j]) THEN ~ins ELSE ins)

\* The loop without "j = i": j stays the last index.
RECURSIVE pip_loop_fixed_j(_, _, _, _, _)
pip_loop_fixed_j(p, poly, i, j, ins) ==
    IF i > Len(poly) THEN ins
    ELSE pip_loop_fixed_j(p, poly, i + 1, j,
                          IF RayCrosses(p, poly[i], poly[j]) THEN ~ins ELSE ins)

\* point_in_polygon with that loop.
point_in_polygon_fixed_j(p, poly) ==
    pip_loop_fixed_j(p, poly, 1, Len(poly), FALSE)

\* point_in_polygon(point, polygon): lines 82-93.
point_in_polygon(p, poly) == pip_loop(p, poly, 1, Len(poly), FALSE)

\* check_polygon_collision without the loop over the points of polygon2.
check_polygon_collision_no_loop2(p1, p2) ==
    IF \E i \in 1..Len(p1) : point_in_polygon(p1[i], p2)
    THEN [value |-> TRUE, stage |-> "loop1"]
    ELSE LET edges1 == get_edges(p1)
             edges2 == get_edges(p2)
         IN  [value |-> \E i \in 1..Len(edges1) : \E k \in 1..Len(edges2) :
                           line_segments_intersect(edges1[i], edges2[k]),
              stage |-> "edges"]

\* check_polygon_collision without the edge test.
check_polygon_collision_no_edges(p1, p2) ==
    IF \E i \in 1..Len(p1) : point_in_polygon(p1[i], p2)
    THEN [value |-> TRUE, stage |-> "loop1"]
    ELSE IF \E i \in 1..Len(p2) : point_in_polygon(p2[i], p1)
    THEN [value |-> TRUE, stage |-> "loop2"]
    ELSE [value |-> FALSE, stage |-> "edges"]

\* check_polygon_collision(polygon1, polygon2): lines 113-128.  The outcome
\* records the return value and the statement that returned it.
check_polygon_collision(p1, p2) ==
    IF \E i \in 1..Len(p1) : point_in_polygon(p1[i], p2)
    THEN [value |-> TRUE, stage |-> "loop1"]
    ELSE IF \E i \in 1..Len(p2) : point_in_polygon(p2[i], p1)
    THEN [value |-> TRUE, stage |-> "loop2"]
    ELSE LET edges1 == get_edges(p1)
             edges2 == get_edges(p2)
         IN  [value |-> \E i \in 1..Len(edges1) : \E k \in 1..Len(edges2) :
                           line_segments_intersect(edges1[i], edges2[k]),
              stage |-> "edges"]

-----------------------------------------------------------------------------
(* DataStorage: src/main.py lines 18-45 *)

\* A dict is a function on the set of its keys.  A DataStorage object is a
\* record of its _data and of the records its methods have sent to the log.
\* Each method yields the object after the call, the value returned and the
\* exception raised (None when the call returns).

KeyNotFound == "Key not found"

EmptyDict == [k \in {} |-> None]

\* d[key] = value
dict_set(d, key, value) ==
    [k \in DOMAIN d \cup {key} |-> IF k = key THEN value ELSE d[k]]

\* del d[key], for a key of d
dict_del(d, key) == [k \in DOMAIN d \ {key} |-> d[k]]

\* d.get(key, default)
dict_get(d, key, default) == IF key \in DOMAIN d THEN d[key] ELSE default

\* __init__: lines 21-23.
DataStorage_init ==
    [data |-> EmptyDict, log |-> << <<"DataStorage initialized">> >>]

\* add(key, value): lines 25-28.
DataStorage_add(self, key, value) ==
    [self   |-> [data |-> dict_set(self.data, key, value),
                 log  |-> Append(self.log, <<"Added/Updated key: ", key>>)],
     ret    |-> None,
     raised |-> None]

\* get(key): lines 30-34.
DataStorage_get(self, key) ==
    [self   |-> [self EXCEPT !.log = Append(@, <<"Retrieved key: ", key>>)],
     ret    |-> dict_get(self.data, key, KeyNotFound),
     raised |-> None]

\* delete without the membership test: del raises KeyError on an absent key.
DataStorage_delete_unguarded(self, key) ==
    IF key \in DOMAIN self.data
    THEN [self   |-> [data |-> dict_del(self.data, key),
                      log  |-> Append(self.log, <<"Deleted key: ", key>>)],
          ret    |-> None,
          raised |-> None]
    ELSE [self |-> self, ret |-> None, raised |-> "KeyError"]

\* delete(key): lines 36-40.
DataStorage_delete(self, key) ==
    IF key \in DOMAIN self.data
    THEN [self   |-> [data |-> dict_del(self.data, key),
                      log  |-> Append(self.log, <<"Deleted key: ", key>>)],
          ret    |-> None,
          raised |-> None]
    ELSE [self |-> self, ret |-> None, raised |-> None]

\* list(): lines 42-45.
DataStorage_list(self) ==
    [self   |-> [self EXCEPT !.log = Append(@, <<"Listed all data">>)],
     ret    |-> self.data,
     raised |-> None]

-----------------------------------------------------------------------------
(* FileProcessor.copy_directory: src/main.py lines 134-165 *)

\* A path is the sequence of its components from the root.  A file tree is
\* a function on the set of existing paths, to "dir" for a directory and to
\* the content for a regular file; the root <<>> is a directory, and the
\* parent of every existing path is a directory.  There are no symbolic
\* links.  Each operation yields the tree after it and the exception raised
\* (None when it returns).

Dir == "dir"

IsPrefix(p, q) == Len(p) <= Len(q) /\ SubSeq(q, 1, Len(p)) = p
Prefixes(p)    == {SubSeq(p, 1, n) : n \in 0..Len(p)}
Name(p)        == p[Len(p)]

\* Path.exists(): line 149.
exists(tree, p) == p \in DOMAIN tree

\* Path.is_dir(): line 161.
is_dir(tree, p) == p \in DOMAIN tree /\ tree[p] = Dir

is_file(tree, p) == p \in DOMAIN tree /\ tree[p] # Dir

\* Path.mkdir(parents=True, exist_ok=True): line 154.  A regular file above
\* the path makes os.mkdir fail with ENOTDIR, a regular file at the path
\* with EEXIST, which exist_ok forgives for directories only.
mkdir(tree, p) ==
    IF \E q \in Prefixes(p) \ {p} : is_file(tree, q)
    THEN [fs |-> tree, raised |-> "NotADirectoryError"]
    ELSE IF is_file(tree, p)
    THEN [fs |-> tree, raised |-> "FileExistsError"]
    ELSE [fs |-> [q \in DOMAIN tree \cup Prefixes(p) |->
                    IF q \in DOMAIN tree THEN tree[q] ELSE Dir],
          raised |-> None]

\* Path.iterdir(): line 158.  The entries are listed once, when the loop
\* starts, in an order the file system chooses: here the order of `order`.
iterdir(tree, p, order) ==
    IF ~is_dir(tree, p)
    THEN [items |-> <<>>, raised |-> "NotADirectoryError"]
    ELSE [items |-> SelectSeq([i \in 1..Len(order) |-> Append(p, order[i])],
                              LAMBDA q : exists(tree, q)),
          raised |-> None]

\* shutil.copy2 that leaves an existing destination file as it is.
copy2_keep_existing(tree, src, dst) ==
    LET real == IF is_dir(tree, dst) THEN Append(dst, Name(src)) ELSE dst
    IN  IF real = src
        THEN [fs |-> tree, raised |-> "SameFileError"]
        ELSE IF is_dir(tree, real)
        THEN [fs |-> tree, raised |-> "IsADirectoryError"]
        ELSE IF exists(tree, real)
        THEN [fs |-> tree, raised |-> None]
        ELSE [fs |-> [q \in DOMAIN tree \cup {real} |->
                        IF q = real THEN tree[src] ELSE tree[q]],
              raised |-> None]

\* shutil.copy2(src, dst): line 164.  A destination that is a directory
\* stands for the entry of the source's name in it; copying a file onto
\* itself raises SameFileError; opening a directory for writing raises
\* IsADirectoryError; otherwise the destination is created or overwritten.
copy2(tree, src, dst) ==
    LET real == IF is_dir(tree, dst) THEN Append(dst, Name(src)) ELSE dst
    IN  IF real = src
        THEN [fs |-> tree, raised |-> "SameFileError"]
        ELSE IF is_dir(tree, real)
        THEN [fs |-> tree, raised |-> "IsADirectoryError"]
        ELSE [fs |-> [q \in DOMAIN tree \cup {real} |->
                        IF q = real THEN tree[src] ELSE tree[q]],
              raised |-> None]

RECURSIVE copy_directory(_, _, _, _)
RECURSIVE copy_items(_, _, _, _)

\* The for loop of copy_directory: lines 158-165.
copy_items(tree, items, target_path, order) ==
    IF items = <<>> THEN [fs |-> tree, raised |-> None]
    ELSE LET item        == Head(items)
             target_item == Append(target_path, Name(item))
             r == IF is_dir(tree, item)
                  THEN copy_directory(tree, item, target_item, order)
                  ELSE copy2(tree, item, target_item)
         IN  IF r.raised # None THEN r
             ELSE copy_items(r.fs, Tail(items), target_path, order)

\* copy_directory(source_dir, target_dir): lines 146-165.
copy_directory(tree, source_path, target_path, order) ==
    IF ~exists(tree, source_path)
    THEN [fs |-> tree, raised |-> "FileNotFoundError"]
    ELSE LET made == mkdir(tree, target_path)
         IN  IF made.raised # None THEN made
             ELSE LET listed == iterdir(made.fs, source_path, order)
                  IN  IF listed.raised # None
                      THEN [fs |-> made.fs, raised |-> listed.raised]
                      ELSE copy_items(made.fs, listed.items, target_path, order)

-----------------------------------------------------------------------------
(* Inputs *)

Grid(mx, my) == (0..mx) \X (0..my)

\* The four corners of the rectangle [x0, x1] x [y0, y1], counter-clockwise
\* from the lower left one.
Corners(x0, x1, y0, y1) == << <<x0, y0>>, <<x1, y0>>, <<x1, y1>>, <<x0, y1>> >>

Rotate(s, k)  == [i \in 1..Len(s) |-> s[((i + k - 1) % Len(s)) + 1]]
Reverse(s)    == [i \in 1..Len(s) |-> s[Len(s) + 1 - i]]

\* Every vertex list of the rectangle: each starting corner, both windings.
Windings(x0, x1, y0, y1) ==
    LET c == Corners(x0, x1, y0, y1)
    IN  {Rotate(c, k) : k \in 0..3} \cup {Reverse(Rotate(c, k)) : k \in 0..3}

Rectangles(m) ==
    UNION {Windings(x0, x1, y0, y1) :
             <<x0, x1, y0, y1>> \in {q \in (0..m) \X (0..m) \X (0..m) \X (0..m) :
                                       q[1] < q[2] /\ q[3] < q[4]}}

\* The first n points, row by row from <<0, 0>>, of the grid w points wide.
Cells(w, n) == {<<k % w, k \div w>> : k \in 0..(n - 1)}

\* Every sequence of three points, degenerate ones included.
Triangles(w) == [1..3 -> Cells(w, TriCells)]

-----------------------------------------------------------------------------
(* Specification of the segment test *)

SegIdle   == seg1 = None /\ seg2 = None /\ intersects = None
PipIdle   == point = None /\ polygon = None /\ inside = None
PolyIdle  == /\ polygon1 = None /\ polygon2 = None
             /\ collision = None /\ collisionRev = None
StoreIdle == /\ storage = None /\ ret = None /\ raised = None
             /\ calls = <<>> /\ before = None
FsIdle    == fs = None /\ fs0 = None /\ call = None /\ copyRaised = None

SegInit ==
    /\ pc = "start"
    /\ seg1 \in Grid(SegMax, SegMax) \X Grid(SegMax, SegMax)
    /\ seg2 \in Grid(SegMax, SegMax) \X Grid(SegMax, SegMax)
    /\ intersects = None
    /\ PipIdle /\ PolyIdle /\ StoreIdle /\ FsIdle

CallSegmentsIntersect ==
    /\ pc = "start"
    /\ pc' = "done"
    /\ intersects' = line_segments_intersect(seg1, seg2)
    /\ UNCHANGED <<seg1, seg2, pipVars, polyVars, storeVars, fsVars>>

SegNext == CallSegmentsIntersect
SpecSeg == SegInit /\ [][SegNext]_vars

-----------------------------------------------------------------------------
(* Specification of the point-in-polygon test on rectangles *)

PipInit ==
    /\ pc = "start"
    /\ polygon \in Rectangles(PipMax)
    /\ point \in (-1..(PipMax + 1)) \X (-1..(PipMax + 1))
    /\ inside = None
    /\ SegIdle /\ PolyIdle /\ StoreIdle /\ FsIdle

CallPointInPolygon ==
    /\ pc = "start"
    /\ pc' = "done"
    /\ inside' = point_in_polygon(point, polygon)
    /\ UNCHANGED <<point, polygon, segVars, polyVars, storeVars, fsVars>>

PipNext == CallPointInPolygon
SpecPip == PipInit /\ [][PipNext]_vars

-----------------------------------------------------------------------------
(* Specification of the collision test on pairs of rectangles *)

RectInit ==
    /\ pc = "start"
    /\ polygon1 \in Rectangles(RectMax)
    /\ polygon2 \in Rectangles(RectMax)
    /\ collision = None /\ collisionRev = None
    /\ SegIdle /\ PipIdle /\ StoreIdle /\ FsIdle

CallCollision ==
    /\ pc = "start"
    /\ pc' = "done"
    /\ collision' = check_polygon_collision(polygon1, polygon2)
    /\ UNCHANGED <<polygon1, polygon2, collisionRev, segVars, pipVars, storeVars, fsVars>>

RectNext == CallCollision
SpecRect == RectInit /\ [][RectNext]_vars

-----------------------------------------------------------------------------
(* Specification of the collision test on pairs of free polygons, called  *)
(* in both argument orders                                                 *)

PolyInit ==
    /\ pc = "start"
    /\ polygon1 \in Triangles(3)
    /\ polygon2 \in Triangles(3)
    /\ collision = None /\ collisionRev = None
    /\ SegIdle /\ PipIdle /\ StoreIdle /\ FsIdle

CallCollisionBothOrders ==
    /\ pc = "start"
    /\ pc' = "done"
    /\ collision' = check_polygon_collision(polygon1, polygon2)
    /\ collisionRev' = check_polygon_collision(polygon2, polygon1)
    /\ UNCHANGED <<polygon1, polygon2, segVars, pipVars, storeVars, fsVars>>

PolyNext == CallCollisionBothOrders
SpecPoly == PolyInit /\ [][PolyNext]_vars

\* The same on the wider grid, where two polygons that both have area can
\* lie apart.
WideInit ==
    /\ pc = "start"
    /\ polygon1 \in Triangles(4)
    /\ polygon2 \in Triangles(4)
    /\ collision = None /\ collisionRev = None
    /\ SegIdle /\ PipIdle /\ StoreIdle /\ FsIdle

SpecWide == WideInit /\ [][PolyNext]_vars

-----------------------------------------------------------------------------
(* Specification of DataStorage: any sequence of at most MaxCalls calls on  *)
(* a freshly constructed object                                            *)

Keys   == {"key1", "key2"}
Values == {"value1", "value2", KeyNotFound}

StoreInit ==
    /\ pc = "ready"
    /\ storage = DataStorage_init
    /\ ret = None /\ raised = None
    /\ calls = <<>>
    /\ before = EmptyDict
    /\ SegIdle /\ PipIdle /\ PolyIdle /\ FsIdle

\* The state after a call whose outcome is r.
Returned(c, r) ==
    /\ Len(calls) < MaxCalls
    /\ storage' = r.self
    /\ ret' = r.ret
    /\ raised' = r.raised
    /\ calls' = Append(calls, c)
    /\ before' = storage.data
    /\ UNCHANGED <<pc, segVars, pipVars, polyVars, fsVars>>

Add(key, value) ==
    Returned([op |-> "add", key |-> key, value |-> value],
             DataStorage_add(storage, key, value))

Get(key) ==
    Returned([op |-> "get", key |-> key], DataStorage_get(storage, key))

Delete(key) ==
    Returned([op |-> "delete", key |-> key], DataStorage_delete(storage, key))

List ==
    Returned([op |-> "list"], DataStorage_list(storage))

StoreNext ==
    \/ \E key \in Keys, value \in Values : Add(key, value)
    \/ \E key \in Keys : Get(key)
    \/ \E key \in Keys : Delete(key)
    \/ List

SpecStore == StoreInit /\ [][StoreNext]_vars

-----------------------------------------------------------------------------
(* Specification of copy_directory: other programs build a file tree of at  *)
(* most MaxEntries entries, then copy_directory is called once             *)

Names    == {"a", "b"}
Contents == {"text1", "text2"}
Orders   == {<<"a", "b">>, <<"b", "a">>}
ArgPaths == UNION {[1..n -> Names] : n \in 0..MaxArgLen}

CopyInit ==
    /\ pc = "setup"
    /\ fs = (<<>> :> Dir)
    /\ fs0 = None /\ call = None /\ copyRaised = None
    /\ SegIdle /\ PipIdle /\ PolyIdle /\ StoreIdle

\* The environment creates a directory or a regular file in an existing
\* directory.
Create(p, entry) ==
    /\ pc = "setup"
    /\ Cardinality(DOMAIN fs) - 1 < MaxEntries
    /\ p \notin DOMAIN fs
    /\ fs' = [q \in DOMAIN fs \cup {p} |-> IF q = p THEN entry ELSE fs[q]]
    /\ UNCHANGED <<pc, fs0, call, copyRaised,
                   segVars, pipVars, polyVars, storeVars>>

CreateDir ==
    \E d \in {q \in DOMAIN fs : fs[q] = Dir}, n \in Names :
        Create(Append(d, n), Dir)

CreateFile ==
    \E d \in {q \in DOMAIN fs : fs[q] = Dir}, n \in Names, c \in Contents :
        Create(Append(d, n), c)

\* One call of copy_directory.  A target inside an existing source tree is
\* left out: the source then contains its own copy and the recursion does
\* not end within the tree.
CallCopyDirectory ==
    /\ pc = "setup"
    /\ \E source \in ArgPaths, target \in ArgPaths, order \in Orders :
         /\ exists(fs, source) => ~IsPrefix(source, target)
         /\ LET r == copy_directory(fs, source, target, order)
            IN  /\ fs' = r.fs
                /\ copyRaised' = r.raised
                /\ call' = [source |-> source, target |-> target,
                            order |-> order]
    /\ fs0' = fs
    /\ pc' = "done"
    /\ UNCHANGED <<segVars, pipVars, polyVars, storeVars>>

CopyNext == CreateDir \/ CreateFile \/ CallCopyDirectory

SpecCopy == CopyInit /\ [][CopyNext]_vars

-----------------------------------------------------------------------------
(* Ground truth for the geometric properties *)

Min2(a, b) == IF a < b THEN a ELSE b
Max2(a, b) == IF a > b THEN a ELSE b

Xs(poly) == {X(poly[i]) : i \in 1..Len(poly)}
Ys(poly) == {Y(poly[i]) : i \in 1..Len(poly)}
MinOf(S) == CHOOSE m \in S : \A n \in S : m <= n
MaxOf(S) == CHOOSE m \in S : \A n \in S : m >= n

\* The bounding box of a polygon; a rectangle is its own bounding box.
Box(poly) == [x0 |-> MinOf(Xs(poly)), x1 |-> MaxOf(Xs(poly)),
              y0 |-> MinOf(Ys(poly)), y1 |-> MaxOf(Ys(poly))]

\* Twice the signed area (shoelace formula): positive for a counter-clockwise
\* vertex list, negative for a clockwise one, zero for a degenerate one.
RECURSIVE Shoelace(_, _)
Shoelace(poly, i) ==
    IF i > Len(poly) THEN 0
    ELSE LET a == poly[i]
             b == poly[(i % Len(poly)) + 1]
         IN  X(a) * Y(b) - X(b) * Y(a) + Shoelace(poly, i + 1)
Clockwise(poly) == Shoelace(poly, 1) < 0
HasArea(poly)   == Shoelace(poly, 1) # 0

\* The cross product (Q - P) x (R - P): positive when R lies to the left of
\* the line from P to Q, negative to the right, zero on the line.
Cross(P, Q, R) == (X(Q) - X(P)) * (Y(R) - Y(P)) - (Y(Q) - Y(P)) * (X(R) - X(P))
Collinear(P, Q, R) == Cross(P, Q, R) = 0

\* The interiors of two boxes share positive area.
InteriorsOverlap(a, b) ==
    /\ Min2(a.x1, b.x1) > Max2(a.x0, b.x0)
    /\ Min2(a.y1, b.y1) > Max2(a.y0, b.y0)

\* Every corner of box a is strictly interior to box b.
StrictlyInsideBox(a, b) ==
    /\ b.x0 < a.x0 /\ a.x1 < b.x1
    /\ b.y0 < a.y0 /\ a.y1 < b.y1

\* Box a's upper right corner is box b's lower left corner.
MeetsUpperRight(a, b) == a.x1 = b.x0 /\ a.y1 = b.y0
\* Box a's lower right corner is box b's upper left corner.
MeetsLowerRight(a, b) == a.x1 = b.x0 /\ a.y0 = b.y1

\* The two boxes have exactly one point in common, a corner of each.
TouchAtCorner(a, b) ==
    \/ MeetsUpperRight(a, b) \/ MeetsUpperRight(b, a)
    \/ MeetsLowerRight(a, b) \/ MeetsLowerRight(b, a)

\* The bounding boxes are separated by a gap along x or along y.
Apart(p1, p2) ==
    LET a == Box(p1)
        b == Box(p2)
    IN  a.x1 < b.x0 \/ b.x1 < a.x0 \/ a.y1 < b.y0 \/ b.y1 < a.y0

-----------------------------------------------------------------------------
(* C1 *)

\* C1: check_polygon_collision is symmetric: called on (A, B) and on (B, A)
\* it returns the same value, for every pair of vertex sequences of the
\* grid, degenerate and boundary-touching pairs included.
C1_Symmetric ==
    pc = "done" => collision.value = collisionRev.value

\* A pair decided by different statements in the two orders: a point of
\* polygon2 lies in polygon1 and no point of polygon1 lies in polygon2.
C1_Witness ==
    /\ pc = "done"
    /\ collision.stage = "loop2"
    /\ collisionRev.stage = "loop1"
    /\ HasArea(polygon1) /\ HasArea(polygon2)

-----------------------------------------------------------------------------
(* C2 *)

\* C2 as stated: two rectangles whose only common point is one shared corner
\* do not collide.
C2_TouchingIsFalse ==
    (pc = "done" /\ TouchAtCorner(Box(polygon1), Box(polygon2)))
        => collision.value = FALSE

\* C2 as amended: for two axis-aligned rectangles whose only common point is
\* one shared corner, the result is false exactly when that corner is the
\* lower right corner of one rectangle and the upper left corner of the
\* other and the two vertex lists are not both clockwise; in every other
\* such case (the corner is the upper right corner of one and the lower left
\* corner of the other, or both lists are clockwise) the result is true.
C2_TouchingAmended ==
    LET a == Box(polygon1)
        b == Box(polygon2)
    IN  (pc = "done" /\ TouchAtCorner(a, b)) =>
            (collision.value = FALSE <=>
                /\ MeetsLowerRight(a, b) \/ MeetsLowerRight(b, a)
                /\ ~(Clockwise(polygon1) /\ Clockwise(polygon2)))

\* Two rectangles that share one corner and are found not to collide.
C2_Witness ==
    /\ pc = "done"
    /\ TouchAtCorner(Box(polygon1), Box(polygon2))
    /\ collision.value = FALSE

-----------------------------------------------------------------------------
(* C3 *)

\* C3: two axis-aligned rectangles whose interiors share positive area
\* collide, whatever the winding and the starting corner of each list.
C3_OverlapIsTrue ==
    (pc = "done" /\ InteriorsOverlap(Box(polygon1), Box(polygon2)))
        => collision.value = TRUE

\* A cross-shaped overlap: no vertex of either rectangle lies in the other,
\* the edge test decides.
C3_Witness ==
    /\ pc = "done"
    /\ InteriorsOverlap(Box(polygon1), Box(polygon2))
    /\ collision = [value |-> TRUE, stage |-> "edges"]

-----------------------------------------------------------------------------
(* C4 *)

\* C4: when every corner of one rectangle is strictly interior to the other,
\* the result is true in both argument orders and one of the two
\* vertex-containment loops returns it, before any edge pair is tested.
C4_NestedIsTrueByContainment ==
    LET a == Box(polygon1)
        b == Box(polygon2)
    IN  (pc = "done" /\ (StrictlyInsideBox(a, b) \/ StrictlyInsideBox(b, a)))
            => /\ collision.value = TRUE
               /\ collision.stage \in {"loop1", "loop2"}

\* The inner rectangle is the second argument: the second loop decides.
C4_Witness ==
    /\ pc = "done"
    /\ StrictlyInsideBox(Box(polygon2), Box(polygon1))
    /\ collision = [value |-> TRUE, stage |-> "loop2"]

-----------------------------------------------------------------------------
(* C5 *)

\* C5: two polygons whose bounding boxes are separated by a gap along x or
\* along y do not collide.
C5_ApartIsFalse ==
    (pc = "done" /\ Apart(polygon1, polygon2)) => collision.value = FALSE

\* Two polygons with area, lying apart, and found not to collide.
C5_Witness ==
    /\ pc = "done"
    /\ Apart(polygon1, polygon2)
    /\ HasArea(polygon1) /\ HasArea(polygon2)
    /\ collision.value = FALSE

-----------------------------------------------------------------------------
(* C6 *)

\* C6: on an axis-aligned rectangle, point_in_polygon returns true for a
\* point strictly inside and false for a point outside the closed rectangle.
C6_PointInRectangle ==
    LET b == Box(polygon)
    IN  pc = "done" =>
          /\ (b.x0 < X(point) /\ X(point) < b.x1 /\
              b.y0 < Y(point) /\ Y(point) < b.y1) => inside = TRUE
          /\ (X(point) < b.x0 \/ X(point) > b.x1 \/
              Y(point) < b.y0 \/ Y(point) > b.y1) => inside = FALSE

\* A point strictly inside a clockwise rectangle, found inside.
C6_Witness ==
    LET b == Box(polygon)
    IN  /\ pc = "done"
        /\ Clockwise(polygon)
        /\ b.x0 < X(point) /\ X(point) < b.x1
        /\ b.y0 < Y(point) /\ Y(point) < b.y1
        /\ inside = TRUE

-----------------------------------------------------------------------------
(* C10 *)

NoThreeCollinear(A, B, C, D) ==
    /\ ~Collinear(A, B, C) /\ ~Collinear(A, B, D)
    /\ ~Collinear(A, C, D) /\ ~Collinear(B, C, D)

AllCollinear(A, B, C, D) ==
    /\ Collinear(A, B, C) /\ Collinear(A, B, D)
    /\ Collinear(A, C, D) /\ Collinear(B, C, D)

\* A and B lie strictly on opposite sides of the line CD, and C and D
\* strictly on opposite sides of the line AB.
ProperCrossing(A, B, C, D) ==
    /\ Cross(C, D, A) * Cross(C, D, B) < 0
    /\ Cross(A, B, C) * Cross(A, B, D) < 0

\* C10: for four points no three of which are collinear,
\* line_segments_intersect is true exactly for a proper crossing; for four
\* collinear points it is false.
C10_ProperCrossings ==
    pc = "done" =>
        LET A == seg1[1]
            B == seg1[2]
            C == seg2[1]
            D == seg2[2]
        IN  /\ NoThreeCollinear(A, B, C, D)
                => (intersects <=> ProperCrossing(A, B, C, D))
            /\ AllCollinear(A, B, C, D) => intersects = FALSE

\* A proper crossing, detected.
C10_Witness ==
    /\ pc = "done"
    /\ NoThreeCollinear(seg1[1], seg1[2], seg2[1], seg2[2])
    /\ ProperCrossing(seg1[1], seg1[2], seg2[1], seg2[2])
    /\ intersects = TRUE

-----------------------------------------------------------------------------
(* C7 *)

\* The value the map holds for key k after the calls cs: that of the most
\* recent add(k, v) if no delete(k) came after it, None if there is none.
RECURSIVE Live(_, _)
Live(cs, k) ==
    IF cs = <<>> THEN None
    ELSE LET c == cs[Len(cs)]
         IN  IF c.op = "add" /\ c.key = k THEN c.value
             ELSE IF c.op = "delete" /\ c.key = k THEN None
             ELSE Live(SubSeq(cs, 1, Len(cs) - 1), k)

LiveKeys(cs) == {k \in Keys : Live(cs, k) # None}

LastCall == calls[Len(calls)]

\* C7: DataStorage behaves as a map.  After any sequence of calls the store
\* holds exactly the live pairs; get(k) returns the value of the most recent
\* add(k, v) not followed by delete(k), and "Key not found" otherwise;
\* list() returns exactly the live pairs; get and list leave the contents
\* as they were, and so does delete of an absent key; no call raises.
C7_BehavesAsMap ==
    /\ DOMAIN storage.data = LiveKeys(calls)
    /\ \A k \in LiveKeys(calls) : storage.data[k] = Live(calls, k)
    /\ raised = None
    /\ calls # <<>> =>
         /\ LastCall.op = "get" =>
              /\ ret = IF Live(calls, LastCall.key) = None THEN KeyNotFound
                       ELSE Live(calls, LastCall.key)
              /\ storage.data = before
         /\ LastCall.op = "list" =>
              /\ ret = [k \in LiveKeys(calls) |-> Live(calls, k)]
              /\ storage.data = before
         /\ (LastCall.op = "delete" /\ LastCall.key \notin DOMAIN before) =>
              storage.data = before

\* add(k, v), delete(k), delete(k) again, then get(k).
C7_Witness ==
    /\ Len(calls) = 4
    /\ calls[1].op = "add"
    /\ calls[2].op = "delete" /\ calls[2].key = calls[1].key
    /\ calls[3].op = "delete" /\ calls[3].key = calls[1].key
    /\ calls[4].op = "get" /\ calls[4].key = calls[1].key
    /\ ret = KeyNotFound
    /\ storage.data = EmptyDict

-----------------------------------------------------------------------------
(* C8 *)

\* C8: every call of add, get, delete or list emits exactly one log record:
\* after n calls the log holds n records besides the constructor's one.
C8_OneRecordPerCall ==
    Len(storage.log) = Len(DataStorage_init.log) + Len(calls)

-----------------------------------------------------------------------------
(* C9 *)

\* The path under `to` that has the place p has under `from`.
Moved(p, from, to) == to \o SubSeq(p, Len(from) + 1, Len(p))

\* The existing paths below `top`, `top` itself left out.
Below(tree, top) == {p \in DOMAIN tree : IsPrefix(top, p) /\ p # top}

\* What the call leaves behind, for a source that is an existing directory:
\* every regular file of the source is a regular file with the same content
\* at the same relative path of the target, and the regular files of the
\* target at relative paths the source does not have are as they were.
CopiedAndFramed ==
    LET source == call.source
        target == call.target
    IN  /\ \A p \in Below(fs0, source) :
             is_file(fs0, p) =>
               LET q == Moved(p, source, target)
               IN  q \in DOMAIN fs /\ fs[q] = fs0[p]
        /\ \A q \in Below(fs0, target) :
             (is_file(fs0, q) /\ Moved(q, target, source) \notin DOMAIN fs0)
               => (q \in DOMAIN fs /\ fs[q] = fs0[q])

\* A missing source raises FileNotFoundError and leaves the tree as it was.
MissingSourceRaises ==
    ~exists(fs0, call.source) =>
        (copyRaised = "FileNotFoundError" /\ fs = fs0)

\* The target holds a regular file where the source holds a directory (or
\* at or above the target itself), or a directory where the source holds a
\* regular file.
TypeConflict ==
    LET source == call.source
        target == call.target
    IN  \/ \E q \in Prefixes(target) : is_file(fs0, q)
        \/ \E p \in Below(fs0, source) :
             LET q == Moved(p, source, target)
             IN  \/ is_dir(fs0, p) /\ is_file(fs0, q)
                 \/ is_file(fs0, p) /\ is_dir(fs0, q)

\* C9 as stated: for an existing source directory and a target outside the
\* source tree, in every initial state of the target, the call leaves every
\* source file copied and the other target files unchanged; a missing
\* source raises FileNotFoundError and changes nothing.
C9_CopyAsStated ==
    pc = "done" =>
        /\ MissingSourceRaises
        /\ (is_dir(fs0, call.source) /\ ~IsPrefix(call.source, call.target))
              => CopiedAndFramed

\* C9 as amended: the same, for a source and a target neither of which lies
\* inside the other and a target without type conflict with the source (no
\* regular file at or above the target or where the source holds a
\* directory, no directory where the source holds a regular file); the call
\* then raises nothing.
C9_CopyAmended ==
    pc = "done" =>
        /\ MissingSourceRaises
        /\ (/\ is_dir(fs0, call.source)
            /\ ~IsPrefix(call.source, call.target)
            /\ ~IsPrefix(call.target, call.source)
            /\ ~TypeConflict)
              => (CopiedAndFramed /\ copyRaised = None)

\* A regular file of the target that held another content, overwritten with
\* the content of the source file of the same relative path.
C9_Witness ==
    /\ pc = "done"
    /\ is_dir(fs0, call.source)
    /\ ~IsPrefix(call.target, call.source)
    /\ ~TypeConflict
    /\ \E p \in Below(fs0, call.source) :
         LET q == Moved(p, call.source, call.target)
         IN  /\ is_file(fs0, p)
             /\ is_file(fs0, q)
             /\ fs0[q] # fs0[p]
             /\ fs[q] = fs0[p]

=============================================================================
